---- MODULE Spec2Model ----
(***************************************************************************)
(* The GnuTLS/libgcrypt CBC block-cipher transform of xmlsec                *)
(* (src/src/gnutls/ciphers.c): Initialize, SetKey, Execute (CtxInit,        *)
(* CtxUpdate, CtxFinal) and Finalize over a transform's input and output    *)
(* buffers, together with the cipher provider the transform drives.         *)
(***************************************************************************)
EXTENDS Integers, Sequences, FiniteSets, TLC

(***************************************************************************)
(* Bounds of the model.                                                     *)
(***************************************************************************)
\* plaintexts have up to MaxBlocks whole blocks, plus or minus one byte
MaxBlocks == 1
\* Execute calls the driver makes on one transform instance
MaxCalls == 2
\* the k-th fallible library call of a handler fails, for k in 1..MaxFault
MaxFault == 2
\* Finalize calls the driver makes on one transform instance
MaxFinalize == 2

\* instance 1 is the transform the driver exercises freely; instance Peer is
\* the decryptor the driver puts behind an encryptor
Inst == {1, 2}
Peer == Cardinality(Inst)
Seeds == {5}
Byte == 0..255

(***************************************************************************)
(* Bytes.                                                                   *)
(***************************************************************************)
RECURSIVE XorBits(_, _, _)
XorBits(a, b, n) ==
  IF n = 0 THEN 0
  ELSE (((a % 2) + (b % 2)) % 2) + 2 * XorBits(a \div 2, b \div 2, n - 1)

Xor(a, b) == XorBits(a, b, 8)

XorBlock(x, y) == [j \in 1..Len(x) |-> Xor(x[j], y[j])]

\* the first n elements of s, or all of s when it has fewer
Take(s, n) == SubSeq(s, 1, IF n < Len(s) THEN n ELSE Len(s))
Drop(s, n) == SubSeq(s, n + 1, Len(s))
Zeros(n) == [j \in 1..n |-> 0]

(***************************************************************************)
(* Transform descriptors, ciphers and key data klasses.                     *)
(***************************************************************************)
Des3CbcId == "Des3Cbc"
Aes128CbcId == "Aes128Cbc"
Aes192CbcId == "Aes192Cbc"
Aes256CbcId == "Aes256Cbc"
OtherId == "Other"
TransformIds == {Des3CbcId, Aes128CbcId, Aes192CbcId, Aes256CbcId}

NoCipher == "none"
NoKeyId == "none"
NullHd == 0

StatusNone == "None"
StatusWorking == "Working"
StatusFinished == "Finished"

\* error reasons handed to xmlSecError
R_XMLSEC_FAILED == "XMLSEC_FAILED"
R_CRYPTO_FAILED == "CRYPTO_FAILED"
R_INVALID_DATA == "INVALID_DATA"
R_INVALID_KEY_SIZE == "INVALID_KEY_SIZE"
R_INVALID_TRANSFORM == "INVALID_TRANSFORM"
R_INVALID_STATUS == "INVALID_STATUS"
R_ASSERT == "ASSERT"

xmlSecGnuTLSBlockCipherCheckId(id) == id \in TransformIds

\* gcry_cipher_get_algo_blklen
BlockLen(cipher) == IF cipher = "3DES" THEN 8 ELSE IF cipher = NoCipher THEN 0 ELSE 16

\* gcry_cipher_get_algo_keylen
KeyLen(cipher) ==
  CASE cipher = "3DES" -> 24
    [] cipher = "AES128" -> 16
    [] cipher = "AES192" -> 24
    [] cipher = "AES256" -> 32
    [] OTHER -> 0

CipherOf(id) ==
  CASE id = Des3CbcId -> "3DES"
    [] id = Aes128CbcId -> "AES128"
    [] id = Aes192CbcId -> "AES192"
    [] id = Aes256CbcId -> "AES256"
    [] OTHER -> NoCipher

\* ciphers.c 461 with the AES key klass for 3DES too
KeyIdOfAllAes(id) == IF id \in TransformIds THEN "AesKey" ELSE NoKeyId
KeyIdOf(id) ==
  CASE id = Des3CbcId -> "DesKey"
    [] id \in {Aes128CbcId, Aes192CbcId, Aes256CbcId} -> "AesKey"
    [] OTHER -> NoKeyId

(***************************************************************************)
(* The cipher provider: a keyed permutation of blocks, chained in CBC mode. *)
(* A session is [open, cipher, key, iv, nSetKey, nSetIv, nClose].           *)
(***************************************************************************)
KeyByte(key, j) == IF Len(key) = 0 THEN 0 ELSE key[((j - 1) % Len(key)) + 1]

BlockEncrypt(key, blk) ==
  [j \in 1..Len(blk) |-> (blk[j] + KeyByte(key, j) + j) % 256]

BlockDecrypt(key, blk) ==
  [j \in 1..Len(blk) |-> (blk[j] + 1024 - KeyByte(key, j) - j) % 256]

\* CBC encryption of whole blocks: [out, iv], iv the chaining value afterwards
RECURSIVE CbcEncrypt(_, _, _, _)
CbcEncrypt(key, iv, data, B) ==
  IF Len(data) < B \/ B = 0 THEN [out |-> <<>>, iv |-> iv]
  ELSE LET c == BlockEncrypt(key, XorBlock(Take(data, B), iv))
           rest == CbcEncrypt(key, c, Drop(data, B), B)
       IN [out |-> c \o rest.out, iv |-> rest.iv]

RECURSIVE CbcDecrypt(_, _, _, _)
CbcDecrypt(key, iv, data, B) ==
  IF Len(data) < B \/ B = 0 THEN [out |-> <<>>, iv |-> iv]
  ELSE LET c == Take(data, B)
           p == XorBlock(BlockDecrypt(key, c), iv)
           rest == CbcDecrypt(key, c, Drop(data, B), B)
       IN [out |-> p \o rest.out, iv |-> rest.iv]

NewSession(cipher) ==
  [open |-> TRUE, cipher |-> cipher, key |-> <<>>, iv |-> Zeros(BlockLen(cipher)),
   nSetKey |-> 0, nSetIv |-> 0, nClose |-> 0]

\* gcry_randomize: the n bytes the provider hands out from position pos on
RandomByte(sd, pos) == (sd + 73 * pos) % 256
RandomBytes(sd, pos, n) == [j \in 1..n |-> RandomByte(sd, pos + j - 1)]

(***************************************************************************)
(* Growable byte buffer: [mem, size], Len(mem) the capacity, the bytes      *)
(* the buffer holds are mem[1..size].                                       *)
(***************************************************************************)
EmptyBuf == [mem |-> <<>>, size |-> 0]
BufData(b) == Take(b.mem, b.size)
BufCap(b) == Len(b.mem)

xmlSecBufferSetMaxSize(b, n) ==
  IF n > BufCap(b) THEN [b EXCEPT !.mem = @ \o Zeros(n - BufCap(b))] ELSE b

xmlSecBufferSetSize(b, n) == [xmlSecBufferSetMaxSize(b, n) EXCEPT !.size = n]

\* memmove of the remaining bytes to the front; everything goes when n >= size
xmlSecBufferRemoveHead(b, n) ==
  IF n < b.size
  THEN [mem |-> [j \in 1..Len(b.mem) |->
                   IF j <= b.size - n THEN b.mem[j + n] ELSE b.mem[j]],
        size |-> b.size - n]
  ELSE [b EXCEPT !.size = 0]

\* memcpy of bytes into the buffer's memory at offset off (0-based)
BufWrite(b, off, bytes) ==
  [b EXCEPT !.mem = [j \in 1..Len(@) |->
      IF j > off /\ j <= off + Len(bytes) THEN bytes[j - off] ELSE @[j]]]

\* the driver's xmlSecBufferAppend
BufAppend(b, bytes) == BufWrite(xmlSecBufferSetSize(b, b.size + Len(bytes)), b.size, bytes)

(***************************************************************************)
(* A handler runs on an execution record m:                                 *)
(*   t    the transform: id, encode, status, inBuf, outBuf and its ctx      *)
(*        (cipher, mode, cipherCtx, keyId, keyInitialized, ctxInitialized)  *)
(*   ss   the provider's sessions, indexed by handle                        *)
(*   rp   how many random bytes the provider has handed to this transform   *)
(*   sd   the provider's random seed                                        *)
(*   fc   fault countdown: the fc-th fallible library call fails (0: none)  *)
(*   hit  whether the fault was hit                                         *)
(*   ret  the handler's return value, errs the reasons given to xmlSecError *)
(*   oob  the calls that were given more than a buffer holds or has room    *)
(*        for: "remove_head", "crypt_out", "crypt_in"                       *)
(***************************************************************************)
ZeroCtx ==
  [cipher |-> NoCipher, mode |-> "none", cipherCtx |-> NullHd, keyId |-> NoKeyId,
   keyInitialized |-> 0, ctxInitialized |-> 0]

NewTransform ==
  [id |-> OtherId, encode |-> FALSE, status |-> StatusNone,
   inBuf |-> EmptyBuf, outBuf |-> EmptyBuf, ctx |-> ZeroCtx]

Fail(m, reason) == [m EXCEPT !.errs = Append(@, reason), !.ret = -1]
Tick(m) == [m EXCEPT !.fc = IF @ > 0 THEN @ - 1 ELSE 0]
Tripped(m) == m.fc = 1
\* the failure of a library call: by the injected fault, or by its contract
LibFail(m, reason) == [Fail(m, reason) EXCEPT !.hit = Tripped(m)]

Hd(m) == m.t.ctx.cipherCtx
SessionOpen(m) == Hd(m) \in 1..Len(m.ss) /\ m.ss[Hd(m)].open

\* a buffer call allocates, and so can fail, only when it has to grow
NeedsAlloc(b, n) == n > BufCap(b)
AllocFails(m, b, n) == NeedsAlloc(b, n) /\ Tripped(m)
Alloced(m, b, n) == IF NeedsAlloc(b, n) THEN Tick(m) ELSE m

\* note in m.oob a call whose arguments are out of a buffer's bounds
Noted(m, out, what) == IF out THEN [m EXCEPT !.oob = @ \cup {what}] ELSE m

\* xmlSecBufferRemoveHead(in, n), as the handlers call it
RemoveHeadIn(m, n) ==
  [Noted(m, n > m.t.inBuf.size, "remove_head") EXCEPT
     !.t.inBuf = xmlSecBufferRemoveHead(@, n)]

\* the arguments of gcry_cipher_encrypt / gcry_cipher_decrypt: outCap bytes of
\* room at out + outOff, inLen bytes read at the start of in; padded: the
\* block was padded in place, beyond the buffer's size
CryptArgs(m, outOff, outCap, inLen, padded) ==
  LET B == BlockLen(m.t.ctx.cipher)
      held == IF padded THEN BufCap(m.t.inBuf) ELSE m.t.inBuf.size
  IN Noted(Noted(m, outOff + outCap > BufCap(m.t.outBuf), "crypt_out"),
           inLen % B # 0 \/ inLen > held \/ (padded /\ inLen # B), "crypt_in")

\* gcry_cipher_setiv
SetIvFails(m, iv) ==
  Tripped(m) \/ ~SessionOpen(m) \/ Len(iv) # BlockLen(m.t.ctx.cipher)
SetIv(m, iv) ==
  Tick([m EXCEPT !.ss[Hd(m)].iv = iv, !.ss[Hd(m)].nSetIv = @ + 1])

\* gcry_cipher_encrypt / gcry_cipher_decrypt of inBytes into out at outOff
CryptFails(m, outCap, inBytes) ==
  \/ Tripped(m)
  \/ ~SessionOpen(m)
  \/ Len(inBytes) % BlockLen(m.t.ctx.cipher) # 0
  \/ outCap < Len(inBytes)
\* the same, written at the start of out (ciphers.c 189 without + outSize)
CryptAtStart(m, encrypt, outOff, inBytes) ==
  LET s == m.ss[Hd(m)]
      B == BlockLen(m.t.ctx.cipher)
      r == IF encrypt THEN CbcEncrypt(s.key, s.iv, inBytes, B)
           ELSE CbcDecrypt(s.key, s.iv, inBytes, B)
  IN Tick([m EXCEPT !.t.outBuf = BufWrite(@, 0, r.out),
                    !.ss[Hd(m)].iv = r.iv])
Crypt(m, encrypt, outOff, inBytes) ==
  LET s == m.ss[Hd(m)]
      B == BlockLen(m.t.ctx.cipher)
      r == IF encrypt THEN CbcEncrypt(s.key, s.iv, inBytes, B)
           ELSE CbcDecrypt(s.key, s.iv, inBytes, B)
  IN Tick([m EXCEPT !.t.outBuf = BufWrite(@, outOff, r.out),
                    !.ss[Hd(m)].iv = r.iv])

\* ciphers.c 78-105 with the session's IV drawn apart from the bytes written
CtxInitEncryptFreshIv(m, B) ==
  LET outSize == m.t.outBuf.size
  IN IF AllocFails(m, m.t.outBuf, outSize + B) THEN LibFail(m, R_XMLSEC_FAILED)
     ELSE LET m1 == [Alloced(m, m.t.outBuf, outSize + B) EXCEPT
                       !.t.outBuf = xmlSecBufferSetSize(@, outSize + B)]
              iv == RandomBytes(m.sd, m.rp, B)
              m2 == [m1 EXCEPT !.t.outBuf = BufWrite(@, outSize, iv),
                               !.rp = @ + B]
          IN IF SetIvFails(m2, iv) THEN LibFail(m2, R_CRYPTO_FAILED)
             ELSE SetIv(m2, RandomBytes(m.sd, m.rp + B, B))

\* ciphers.c 78-105: the encrypt branch of CtxInit
CtxInitEncrypt(m, B) ==
  LET outSize == m.t.outBuf.size
  IN IF AllocFails(m, m.t.outBuf, outSize + B) THEN LibFail(m, R_XMLSEC_FAILED)
     ELSE LET m1 == [Alloced(m, m.t.outBuf, outSize + B) EXCEPT
                       !.t.outBuf = xmlSecBufferSetSize(@, outSize + B)]
              iv == RandomBytes(m.sd, m.rp, B)
              m2 == [m1 EXCEPT !.t.outBuf = BufWrite(@, outSize, iv),
                               !.rp = @ + B]
          IN IF SetIvFails(m2, iv) THEN LibFail(m2, R_CRYPTO_FAILED)
             ELSE SetIv(m2, iv)

\* the test of ciphers.c 109 with its bound one too low
NotEnoughForIvOffByOne(inSize, B) == inSize < B - 1
\* ciphers.c 109: too little input to hold the IV
NotEnoughForIv(inSize, B) == inSize < B

\* ciphers.c 112-134: the decrypt branch of CtxInit once the IV is there
CtxInitDecrypt(m, B) ==
  LET iv == Take(m.t.inBuf.mem, B)
  IN IF SetIvFails(m, iv) THEN LibFail(m, R_CRYPTO_FAILED)
     ELSE RemoveHeadIn(SetIv(m, iv), B)

\* ciphers.c 137-138
CtxInitDone(m) == [m EXCEPT !.t.ctx.ctxInitialized = 0, !.ret = 0]

\* ciphers.c 65-76 without the assertion on the key
CtxInitAssertsNoKey(ctx, B) ==
  /\ ctx.cipher # NoCipher
  /\ ctx.cipherCtx # NullHd
  /\ ctx.ctxInitialized = 0
  /\ B > 0
\* ciphers.c 65-76: what CtxInit asserts of the context
CtxInitAsserts(ctx, B) ==
  /\ ctx.cipher # NoCipher
  /\ ctx.cipherCtx # NullHd
  /\ ctx.keyInitialized # 0
  /\ ctx.ctxInitialized = 0
  /\ B > 0

xmlSecGnuTLSBlockCipherCtxInit(m, encrypt) ==
  LET ctx == m.t.ctx
      B == BlockLen(ctx.cipher)
  IN IF ~CtxInitAsserts(ctx, B)
     THEN Fail(m, R_ASSERT)
     ELSE IF encrypt
          THEN LET e == CtxInitEncrypt(m, B)
               IN IF e.ret < 0 THEN e ELSE CtxInitDone(e)
          ELSE IF NotEnoughForIv(m.t.inBuf.size, B) THEN m
               ELSE LET d == CtxInitDecrypt(m, B)
                    IN IF d.ret < 0 THEN d ELSE CtxInitDone(d)

\* ciphers.c 170-177 with the encrypt count in both directions
InBlocksNoHoldBack(encrypt, inSize, B) == inSize \div B
\* ciphers.c 170-177
InBlocks(encrypt, inSize, B) ==
  IF encrypt THEN inSize \div B ELSE (inSize - 1) \div B

\* ciphers.c 215-236 with the processed input left in place
UpdateCommitKeepInput(m, outSize, inSize) ==
  [m EXCEPT !.t.outBuf = xmlSecBufferSetSize(@, outSize + inSize)]
\* ciphers.c 215-236: set the output size, remove the processed input
UpdateCommit(m, outSize, inSize) ==
  RemoveHeadIn([m EXCEPT !.t.outBuf = xmlSecBufferSetSize(@, outSize + inSize)],
               inSize)

xmlSecGnuTLSBlockCipherCtxUpdate(m, encrypt) ==
  LET ctx == m.t.ctx
      B == BlockLen(ctx.cipher)
      inSize0 == m.t.inBuf.size
      outSize == m.t.outBuf.size
  IN IF ~(/\ ctx.cipher # NoCipher
          /\ ctx.cipherCtx # NullHd
          /\ ctx.ctxInitialized # 0
          /\ B > 0)
     THEN Fail(m, R_ASSERT)
     ELSE IF inSize0 < B THEN m
     ELSE LET inSize == InBlocks(encrypt, inSize0, B) * B
              want == outSize + inSize + B
          IN IF AllocFails(m, m.t.outBuf, want) THEN LibFail(m, R_XMLSEC_FAILED)
             ELSE LET m0 == [Alloced(m, m.t.outBuf, want) EXCEPT
                               !.t.outBuf = xmlSecBufferSetMaxSize(@, want)]
                      m1 == CryptArgs(m0, outSize, inSize + B, inSize, FALSE)
                      inBytes == Take(m1.t.inBuf.mem, inSize)
                  IN IF CryptFails(m1, inSize + B, inBytes)
                     THEN LibFail(m1, R_CRYPTO_FAILED)
                     ELSE UpdateCommit(Crypt(m1, encrypt, outSize, inBytes),
                                       outSize, inSize)

\* ciphers.c 266-287 with the last byte counting the random bytes only
FinalPadShortCount(m, B) ==
  LET inSize == m.t.inBuf.size
  IN IF ~(inSize < B) THEN Fail(m, R_ASSERT)
     ELSE IF AllocFails(m, m.t.inBuf, B) THEN LibFail(m, R_XMLSEC_FAILED)
     ELSE LET m1 == [Alloced(m, m.t.inBuf, B) EXCEPT
                       !.t.inBuf = xmlSecBufferSetMaxSize(@, B)]
              n == B - inSize - 1
              m2 == IF B > inSize + 1
                    THEN [m1 EXCEPT
                            !.t.inBuf = BufWrite(@, inSize, RandomBytes(m.sd, m.rp, n)),
                            !.rp = @ + n]
                    ELSE m1
          IN [m2 EXCEPT !.t.inBuf = BufWrite(@, B - 1, <<n>>)]

\* ciphers.c 266-287: encrypt Final pads the input block in place
FinalPad(m, B) ==
  LET inSize == m.t.inBuf.size
  IN IF ~(inSize < B) THEN Fail(m, R_ASSERT)
     ELSE IF AllocFails(m, m.t.inBuf, B) THEN LibFail(m, R_XMLSEC_FAILED)
     ELSE LET m1 == [Alloced(m, m.t.inBuf, B) EXCEPT
                       !.t.inBuf = xmlSecBufferSetMaxSize(@, B)]
              n == B - inSize - 1
              m2 == IF B > inSize + 1
                    THEN [m1 EXCEPT
                            !.t.inBuf = BufWrite(@, inSize, RandomBytes(m.sd, m.rp, n)),
                            !.rp = @ + n]
                    ELSE m1
          IN [m2 EXCEPT !.t.inBuf = BufWrite(@, B - 1, <<B - inSize>>)]

\* the test of ciphers.c 337 refusing a block that is all padding
BadPaddingStrict(inSize, p) == inSize <= p
\* ciphers.c 337: the padding length the decrypted block's last byte gives is
\* refused
BadPadding(inSize, p) == inSize < p

\* ciphers.c 351-394 with the input left in place
FinalCommitKeepInput(m, outSize, outLen, inSize) ==
  [m EXCEPT !.t.outBuf = xmlSecBufferSetSize(@, outSize + outLen), !.ret = 0]

\* ciphers.c 351-394: set the output size and drop the input, twice
FinalCommit(m, outSize, outLen, inSize) ==
  LET m1 == RemoveHeadIn(
              [m EXCEPT !.t.outBuf = xmlSecBufferSetSize(@, outSize + outLen)],
              inSize)
  IN RemoveHeadIn(
       [m1 EXCEPT !.t.outBuf = xmlSecBufferSetSize(@, outSize + outLen),
                  !.ret = 0],
       inSize)

\* ciphers.c 299-349, inSize the length of the block handed to the cipher
FinalBlock(m, encrypt, B, inSize, outSize) ==
  LET want == outSize + 2 * B
  IN IF AllocFails(m, m.t.outBuf, want) THEN LibFail(m, R_XMLSEC_FAILED)
     ELSE LET m0 == [Alloced(m, m.t.outBuf, want) EXCEPT
                       !.t.outBuf = xmlSecBufferSetMaxSize(@, want)]
              m1 == CryptArgs(m0, outSize, inSize + B, inSize, encrypt)
              inBytes == Take(m1.t.inBuf.mem, inSize)
          IN IF CryptFails(m1, inSize + B, inBytes) THEN LibFail(m1, R_CRYPTO_FAILED)
             ELSE LET m2 == Crypt(m1, encrypt, outSize, inBytes)
                      p == m2.t.outBuf.mem[outSize + B]
                  IN IF encrypt THEN FinalCommit(m2, outSize, inSize, inSize)
                     ELSE IF BadPadding(inSize, p) THEN Fail(m2, R_INVALID_DATA)
                     ELSE FinalCommit(m2, outSize, inSize - p, inSize)

\* the test of ciphers.c 289 refusing only an empty input
NotOneBlockEmptyOnly(inSize, B) == inSize = 0
\* the test of ciphers.c 289 refusing only what is longer than a block
NotOneBlockLax(inSize, B) == inSize > B
\* ciphers.c 289: decrypt Final is not given exactly one block
NotOneBlock(inSize, B) == inSize # B

xmlSecGnuTLSBlockCipherCtxFinal(m, encrypt) ==
  LET ctx == m.t.ctx
      B == BlockLen(ctx.cipher)
      inSize == m.t.inBuf.size
      outSize == m.t.outBuf.size
  IN IF ~(/\ ctx.cipher # NoCipher
          /\ ctx.cipherCtx # NullHd
          /\ ctx.ctxInitialized # 0
          /\ B > 0)
     THEN Fail(m, R_ASSERT)
     ELSE IF encrypt
          THEN LET e == FinalPad(m, B)
               IN IF e.ret < 0 THEN e ELSE FinalBlock(e, encrypt, B, B, outSize)
          ELSE IF NotOneBlock(inSize, B) THEN Fail(m, R_INVALID_DATA)
               ELSE FinalBlock(m, encrypt, B, inSize, outSize)

(***************************************************************************)
(* The transform's methods.                                                 *)
(***************************************************************************)
\* ciphers.c 490-499, openOk: whether gcry_cipher_open gives a handle
OpenSession(m, openOk) ==
  IF ~openOk THEN Fail(m, R_CRYPTO_FAILED)
  ELSE [m EXCEPT !.ss = Append(@, NewSession(m.t.ctx.cipher)),
                 !.t.ctx.cipherCtx = Len(m.ss) + 1,
                 !.ret = 0]

xmlSecGnuTLSBlockCipherInitialize(m, openOk) ==
  IF ~xmlSecGnuTLSBlockCipherCheckId(m.t.id) THEN Fail(m, R_ASSERT)
  ELSE LET z == [m EXCEPT !.t.ctx = ZeroCtx]
       IN IF m.t.id \in TransformIds
          THEN OpenSession([z EXCEPT !.t.ctx.cipher = CipherOf(m.t.id),
                                     !.t.ctx.mode = "CBC",
                                     !.t.ctx.keyId = KeyIdOf(m.t.id)], openOk)
          ELSE Fail(z, R_INVALID_TRANSFORM)

\* gcry_cipher_close left out
CloseSessionNone(ss, h) == ss
\* gcry_cipher_close
CloseSession(ss, h) ==
  IF h \in 1..Len(ss)
  THEN [ss EXCEPT ![h].open = FALSE, ![h].nClose = @ + 1, ![h].key = <<>>]
  ELSE ss

\* ciphers.c 502-517 with the session handle cleared in place of the memset
FinalizeHandleOnly(m) ==
  IF ~xmlSecGnuTLSBlockCipherCheckId(m.t.id) THEN m
  ELSE [m EXCEPT !.ss = IF m.t.ctx.cipherCtx # NullHd
                        THEN CloseSession(@, m.t.ctx.cipherCtx) ELSE @,
                 !.t.ctx.cipherCtx = NullHd]

xmlSecGnuTLSBlockCipherFinalize(m) ==
  IF ~xmlSecGnuTLSBlockCipherCheckId(m.t.id) THEN m
  ELSE [m EXCEPT !.ss = IF m.t.ctx.cipherCtx # NullHd
                        THEN CloseSession(@, m.t.ctx.cipherCtx) ELSE @,
                 !.t.ctx = ZeroCtx]

\* the test of ciphers.c 567 with <= for <
KeyTooShortOrExact(size, keySize) == size <= keySize
\* ciphers.c 567: the key's buffer is too short for the cipher
KeyTooShort(size, keySize) == size < keySize

\* gcry_cipher_setkey
SetKeyFails(m, bytes) ==
  Tripped(m) \/ ~SessionOpen(m) \/ Len(bytes) # KeyLen(m.t.ctx.cipher)

\* ciphers.c 549-562 without the assertion that no key is loaded
SetKeyAssertsRekey(t, key, keySize) ==
  /\ xmlSecGnuTLSBlockCipherCheckId(t.id)
  /\ t.ctx.cipherCtx # NullHd
  /\ t.ctx.cipher # NoCipher
  /\ t.ctx.keyId # NoKeyId
  /\ key.id = t.ctx.keyId
  /\ keySize > 0
\* ciphers.c 549-562: what SetKey asserts of the transform and the key
SetKeyAsserts(t, key, keySize) ==
  /\ xmlSecGnuTLSBlockCipherCheckId(t.id)
  /\ t.ctx.cipherCtx # NullHd
  /\ t.ctx.cipher # NoCipher
  /\ t.ctx.keyInitialized = 0
  /\ t.ctx.keyId # NoKeyId
  /\ key.id = t.ctx.keyId
  /\ keySize > 0

\* key: [id, value], the key data klass and the bytes of its binary value
xmlSecGnuTLSBlockCipherSetKey(m, key) ==
  LET ctx == m.t.ctx
      keySize == KeyLen(ctx.cipher)
  IN IF ~SetKeyAsserts(m.t, key, keySize)
     THEN Fail(m, R_ASSERT)
     ELSE IF KeyTooShort(Len(key.value), keySize) THEN Fail(m, R_INVALID_KEY_SIZE)
     ELSE LET bytes == Take(key.value, keySize)
          IN IF SetKeyFails(m, bytes) THEN LibFail(m, R_CRYPTO_FAILED)
             ELSE Tick([m EXCEPT !.ss[Hd(m)].key = bytes,
                                 !.ss[Hd(m)].nSetKey = @ + 1,
                                 !.t.ctx.keyInitialized = 1,
                                 !.ret = 0])

\* ciphers.c 608-610 taking a finished transform back to work
EnterStatusReopen(status) ==
  IF status \in {StatusNone, StatusFinished} THEN StatusWorking ELSE status
\* ciphers.c 608-610 left out
EnterStatusSkipped(status) == status
\* ciphers.c 608-610
EnterStatus(status) == IF status = StatusNone THEN StatusWorking ELSE status

\* the test of ciphers.c 626 left out
NoIvAtLastUnchecked(ctxInitialized, last) == FALSE
\* ciphers.c 626: the last call came and the cipher has no IV yet
NoIvAtLast(ctxInitialized, last) == ctxInitialized = 0 /\ last

\* ciphers.c 612-661
ExecuteWorking(m, last) ==
  LET a == IF m.t.ctx.ctxInitialized = 0
           THEN xmlSecGnuTLSBlockCipherCtxInit(m, m.t.encode) ELSE m
  IN IF a.ret < 0 THEN Fail(a, R_XMLSEC_FAILED)
     ELSE IF NoIvAtLast(a.t.ctx.ctxInitialized, last) THEN Fail(a, R_INVALID_DATA)
     ELSE LET b == IF a.t.ctx.ctxInitialized # 0
                   THEN xmlSecGnuTLSBlockCipherCtxUpdate(a, a.t.encode) ELSE a
          IN IF b.ret < 0 THEN Fail(b, R_XMLSEC_FAILED)
             ELSE IF ~last THEN b
             ELSE LET c == xmlSecGnuTLSBlockCipherCtxFinal(b, b.t.encode)
                  IN IF c.ret < 0 THEN Fail(c, R_XMLSEC_FAILED)
                     ELSE [c EXCEPT !.t.status = StatusFinished]

\* ciphers.c 662-664 without the assertion
ExecuteFinishedLax(m) == m
\* ciphers.c 662-664
ExecuteFinished(m) == IF m.t.inBuf.size = 0 THEN m ELSE Fail(m, R_ASSERT)

xmlSecGnuTLSBlockCipherExecute(m, last) ==
  IF ~xmlSecGnuTLSBlockCipherCheckId(m.t.id) THEN Fail(m, R_ASSERT)
  ELSE LET m1 == [m EXCEPT !.t.status = EnterStatus(@)]
       IN CASE m1.t.status = StatusWorking -> ExecuteWorking(m1, last)
            [] m1.t.status = StatusFinished -> ExecuteFinished(m1)
            [] m1.t.status = StatusNone ->
                 IF ~last THEN m1 ELSE Fail(m1, R_ASSERT)
            [] OTHER -> Fail(m1, R_INVALID_STATUS)

(***************************************************************************)
(* What the driver feeds: keys, plaintexts and ciphertext streams.          *)
(***************************************************************************)
KeyBytes(n) == [j \in 1..n |-> (11 * j + 3) % 256]
KeySizes == {16, 24, 32}
\* keys of the klass the transform asks for, in three lengths, and one key of
\* the other klass
Keys(id) ==
  {[id |-> KeyIdOf(id), value |-> KeyBytes(n)] : n \in KeySizes}
    \cup {[id |-> IF KeyIdOf(id) = "DesKey" THEN "AesKey" ELSE "DesKey",
           value |-> KeyBytes(KeyLen(CipherOf(id)))]}
\* the key the driver holds for a transform: the right klass and length
DriverKey(id) == [id |-> KeyIdOf(id), value |-> KeyBytes(KeyLen(CipherOf(id)))]

PlainLens(B) == {n \in 0..(MaxBlocks * B + 1) : n % B \in {0, 1, B - 1}}
Plain(n) == [j \in 1..n |-> (7 * j + n) % 256]

RefIv(B) == [j \in 1..B |-> (200 + j) % 256]
Filler(n) == [j \in 1..n |-> 170]

\* IV || CBC(P || filler || last): a stream as the wire format lays it out,
\* under the cipher's reference key, its final byte of padding set to last
Wire(cipher, P, last) ==
  LET B == BlockLen(cipher)
      pad == B - (Len(P) % B)
      padded == P \o Filler(pad - 1) \o <<last>>
  IN RefIv(B) \o CbcEncrypt(KeyBytes(KeyLen(cipher)), RefIv(B), padded, B).out

PadOf(n, B) == B - (n % B)

\* well-formed streams, streams whose padding length is 0 or B + 1, and
\* streams cut short
GoodWires(cipher) ==
  {Wire(cipher, Plain(n), PadOf(n, BlockLen(cipher))) : n \in PlainLens(BlockLen(cipher))}
BadPadWires(cipher) ==
  {Wire(cipher, Plain(n), p) : n \in {1}, p \in {0, BlockLen(cipher) + 1}}
CutWires(cipher) ==
  LET B == BlockLen(cipher)
      w == Wire(cipher, Plain(1), B - 1)
      w2 == Wire(cipher, Plain(B), B)
  IN {Take(w, k) : k \in {B - 1, B, 2 * B - 1}} \cup {Take(w2, 3 * B - 1)}

Ciphers == {"3DES", "AES128", "AES192", "AES256"}

\* every stream, with its cipher
WireTable ==
  UNION {{<<c, w>> : w \in GoodWires(c) \cup BadPadWires(c) \cup CutWires(c)} : c \in Ciphers}

Inputs ==
  [cipher \in Ciphers \cup {NoCipher}, encode \in BOOLEAN |->
     IF cipher = NoCipher THEN {<<>>}
     ELSE IF encode THEN {Plain(n) : n \in PlainLens(BlockLen(cipher))}
     ELSE {x[2] : x \in {y \in WireTable : y[1] = cipher}}]

\* the sizes of the chunks the driver appends, given what is left to feed
ChunkSizes(B, left) == {n \in {B - 1, left} : n >= 1 /\ n <= left}

(***************************************************************************)
(* State.                                                                   *)
(***************************************************************************)
VARIABLES
  tr,    \* tr[i]: transform instance i
  ss,    \* the provider's sessions, by handle
  sd,    \* the provider's random seed
  rp,    \* rp[i]: random bytes handed to instance i so far
  src,   \* src[i]: the bytes the driver has still to append to tr[i].inBuf
  g,     \* g[i]: history of instance i
  call   \* the method call that has just returned: what, on which instance,
         \* from which state, with which result

vars == <<tr, ss, sd, rp, src, g, call>>

NoKey == [id |-> NoKeyId, value |-> <<>>]

NoCall == [op |-> "none", i |-> 0, last |-> FALSE, hit |-> FALSE,
           pre |-> NewTransform, preTr |-> <<>>, preSs |-> <<>>, preRp |-> 0,
           arg |-> NoKey,
           ret |-> 0, errs |-> <<>>, oob |-> {}]

NewHistory ==
  [inited |-> FALSE, loaded |-> FALSE, input |-> <<>>, fed |-> <<>>, out |-> <<>>,
   execs |-> 0, appended |-> FALSE, fin |-> FALSE, fins |-> 0, faulted |-> FALSE, final |-> FALSE, lastRet |-> 0,
   from |-> 0,
   base |-> [t |-> NewTransform, ss |-> <<>>, rp |-> 0]]

Init ==
  /\ tr = [i \in Inst |-> NewTransform]
  /\ ss = <<>>
  /\ sd \in Seeds
  /\ rp = [i \in Inst |-> 0]
  /\ src = [i \in Inst |-> <<>>]
  /\ g = [i \in Inst |-> NewHistory]
  /\ call = NoCall

\* the execution record of a method called on instance i
Exec(i, fault) ==
  [t |-> tr[i], ss |-> ss, rp |-> rp[i], sd |-> sd, fc |-> fault, hit |-> FALSE,
   ret |-> 0, errs |-> <<>>, oob |-> {}]

Called(op, i, last, arg, m) ==
  [op |-> op, i |-> i, last |-> last, hit |-> m.hit,
   pre |-> tr[i], preTr |-> tr, preSs |-> ss, preRp |-> rp[i], arg |-> arg,
   ret |-> m.ret, errs |-> m.errs, oob |-> m.oob]

\* a fault is injected only where it is hit
Injected(fault, m) == fault = 0 \/ m.hit

\* what the call appended to the output buffer
Emitted(pre, post) == SubSeq(BufData(post), pre.size + 1, post.size)

(***************************************************************************)
(* Actions: the driver's calls.                                             *)
(***************************************************************************)
\* the framework creates the transform from a descriptor, sets its direction
\* and calls the initialize method
Initialize(i, id, enc, openOk) ==
  /\ ~g[i].inited
  /\ i = Peer => /\ g[1].final /\ tr[1].encode
                 /\ id = tr[1].id /\ ~enc /\ openOk
  /\ LET m == xmlSecGnuTLSBlockCipherInitialize(
                [Exec(i, 0) EXCEPT !.t.id = id, !.t.encode = enc], openOk)
     IN /\ tr' = [tr EXCEPT ![i] = m.t]
        /\ ss' = m.ss
        /\ g' = [g EXCEPT ![i].inited = TRUE]
        /\ call' = Called("Initialize", i, FALSE, NoKey, m)
  /\ UNCHANGED <<sd, rp, src>>

SetKey(i, key, fault) ==
  /\ g[i].loaded
  \* between two Execute calls the driver tries the key it holds, on the
  \* return of the first
  /\ g[i].execs > 0 =>
       /\ call.op = "Execute" /\ call.i = i
       /\ key = DriverKey(tr[i].id) /\ fault = 0
  /\ ~g[i].fin
  /\ i = Peer => key = DriverKey(tr[i].id) /\ fault = 0
  /\ i # Peer => ~g[Peer].inited
  /\ LET m == xmlSecGnuTLSBlockCipherSetKey(Exec(i, fault), key)
     IN /\ Injected(fault, m)
        /\ tr' = [tr EXCEPT ![i] = m.t]
        /\ ss' = m.ss
        /\ g' = [g EXCEPT ![i].faulted = @ \/ m.hit]
        /\ call' = Called("SetKey", i, FALSE, key, m)
  /\ UNCHANGED <<sd, rp, src>>

\* the driver picks what it is going to feed to instance i
Load(i, data) ==
  /\ i # Peer
  /\ g[i].inited
  /\ ~g[i].loaded
  /\ src' = [src EXCEPT ![i] = data]
  /\ g' = [g EXCEPT ![i].loaded = TRUE, ![i].input = data]
  /\ call' = NoCall
  /\ UNCHANGED <<tr, ss, sd, rp>>

\* the driver moves the output of encryptor i to the input stream of decryptor j
Pipe(i, j) ==
  /\ i # j /\ j = Peer
  /\ tr[i].encode /\ ~tr[j].encode
  /\ g[j].inited /\ ~g[j].loaded
  /\ g[i].final
  /\ src' = [src EXCEPT ![j] = BufData(tr[i].outBuf)]
  /\ tr' = [tr EXCEPT ![i].outBuf = xmlSecBufferRemoveHead(@, @.size)]
  /\ g' = [g EXCEPT ![j].loaded = TRUE, ![j].from = i,
                    ![j].input = BufData(tr[i].outBuf)]
  /\ call' = NoCall
  /\ UNCHANGED <<ss, sd, rp>>

\* the driver appends the next n bytes of its stream to the input buffer
AppendInput(i, n) ==
  /\ g[i].loaded
  /\ ~g[i].appended
  /\ ~g[i].fin
  /\ g[i].final => tr[i].status = StatusFinished
  /\ n \in ChunkSizes(BlockLen(CipherOf(tr[i].id)), Len(src[i]))
  /\ i = Peer => n = Len(src[i])
  /\ i # Peer => ~g[Peer].inited
  /\ tr' = [tr EXCEPT ![i].inBuf = BufAppend(@, Take(src[i], n))]
  /\ src' = [src EXCEPT ![i] = Drop(@, n)]
  /\ g' = [g EXCEPT ![i].fed = @ \o Take(src[i], n), ![i].appended = TRUE]
  /\ call' = NoCall
  /\ UNCHANGED <<ss, sd, rp>>

Execute(i, last, fault) ==
  /\ g[i].loaded
  \* a transform that was given up is called once more, on the return of
  \* Finalize
  /\ g[i].fin => call.op = "Finalize" /\ call.i = i
  /\ g[i].execs < MaxCalls
  /\ g[i].final => tr[i].status = StatusFinished
  /\ last => src[i] = <<>>
  /\ i = Peer => last /\ fault = 0
  /\ i # Peer => ~g[Peer].inited
  /\ LET m == xmlSecGnuTLSBlockCipherExecute(Exec(i, fault), last)
     IN /\ Injected(fault, m)
        /\ tr' = [tr EXCEPT ![i] = m.t]
        /\ ss' = m.ss
        /\ rp' = [rp EXCEPT ![i] = m.rp]
        /\ g' = [g EXCEPT
                   ![i].execs = @ + 1,
                   ![i].appended = FALSE,
                   ![i].faulted = @ \/ m.hit,
                   ![i].out = @ \o Emitted(tr[i].outBuf, m.t.outBuf),
                   ![i].final = @ \/ last,
                   ![i].lastRet = IF last THEN m.ret ELSE @,
                   ![i].base = IF g[i].execs = 0
                               THEN [t |-> [tr[i] EXCEPT !.inBuf = EmptyBuf,
                                                         !.outBuf = EmptyBuf],
                                     ss |-> ss, rp |-> rp[i]]
                               ELSE @]
        /\ call' = Called("Execute", i, last, NoKey, m)
  /\ UNCHANGED <<sd, src>>

Finalize(i) ==
  /\ g[i].inited
  /\ g[i].fins < MaxFinalize
  \* the driver gives the transform up on the return of one of its calls; a
  \* repeated Finalize follows the one before it at once
  /\ call.i = i
  /\ g[i].fins > 0 => call.op = "Finalize"
  /\ LET m == xmlSecGnuTLSBlockCipherFinalize(Exec(i, 0))
     IN /\ tr' = [tr EXCEPT ![i] = m.t]
        /\ ss' = m.ss
        /\ g' = [g EXCEPT ![i].fin = TRUE, ![i].fins = @ + 1]
        /\ call' = Called("Finalize", i, FALSE, NoKey, m)
  /\ UNCHANGED <<sd, rp, src>>

Next ==
  \/ \E i \in Inst, id \in TransformIds \cup {OtherId}, enc \in BOOLEAN, openOk \in BOOLEAN :
       Initialize(i, id, enc, openOk)
  \/ \E i \in Inst : \E key \in Keys(tr[i].id), fault \in 0..1 : SetKey(i, key, fault)
  \/ \E i \in Inst : /\ i # Peer /\ g[i].inited /\ ~g[i].loaded
                      /\ \E data \in Inputs[tr[i].ctx.cipher, tr[i].encode] : Load(i, data)
  \/ \E i \in Inst, j \in Inst : Pipe(i, j)
  \/ \E i \in Inst : \E n \in 1..Len(src[i]) : AppendInput(i, n)
  \/ \E i \in Inst, last \in BOOLEAN, fault \in 0..MaxFault : Execute(i, last, fault)
  \/ \E i \in Inst : Finalize(i)

Spec == Init /\ [][Next]_vars

(***************************************************************************)
(* The Execute method on its own: the transform is drawn in each of the     *)
(* states the method distinguishes (status, framing flag, buffers), with    *)
(* the session open and the key loaded, and the driver goes on from there.  *)
(***************************************************************************)
Blank(s) ==
  [t |-> NewTransform, ss |-> <<>>, rp |-> 0, sd |-> s, fc |-> 0, hit |-> FALSE,
   ret |-> 0, errs |-> <<>>, oob |-> {}]

\* a transform initialized by its own method, no key set
InitializedStart(s, id, enc) ==
  xmlSecGnuTLSBlockCipherInitialize(
    [Blank(s) EXCEPT !.t.id = id, !.t.encode = enc], TRUE)

\* a transform initialized and keyed by its own methods
KeyedStart(s, id, enc) ==
  xmlSecGnuTLSBlockCipherSetKey(InitializedStart(s, id, enc), DriverKey(id))

\* the same, after the framing step has run on the head of the stream and
\* has marked the framing done
FramedStart(s, id, enc, stream) ==
  LET B == BlockLen(CipherOf(id))
      m1 == KeyedStart(s, id, enc)
      m2 == IF enc THEN CtxInitEncrypt(m1, B)
            ELSE CtxInitDecrypt([m1 EXCEPT !.t.inBuf = BufAppend(@, Take(stream, B))], B)
  IN [m2 EXCEPT !.t.ctx.ctxInitialized = 1]

\* status, key flag and framing flag as the methods' branches tell them apart
StartKinds ==
  {[status |-> StatusNone, keyed |-> FALSE, framed |-> FALSE],
   [status |-> StatusNone, keyed |-> TRUE, framed |-> FALSE],
   [status |-> StatusWorking, keyed |-> TRUE, framed |-> FALSE],
   [status |-> StatusWorking, keyed |-> TRUE, framed |-> TRUE],
   [status |-> StatusFinished, keyed |-> TRUE, framed |-> TRUE]}

InitCall ==
  /\ sd \in Seeds
  /\ \E id \in TransformIds, enc \in BOOLEAN, k \in StartKinds :
       \E stream \in Inputs[CipherOf(id), enc] :
         LET B == BlockLen(CipherOf(id))
             m == IF k.framed THEN FramedStart(sd, id, enc, stream)
                  ELSE IF k.keyed THEN KeyedStart(sd, id, enc)
                  ELSE InitializedStart(sd, id, enc)
             eaten == IF k.framed /\ ~enc THEN B ELSE 0
             t1 == [m.t EXCEPT !.status = k.status]
         IN /\ Len(stream) >= eaten
            /\ tr = [i \in Inst |-> IF i = 1 THEN t1 ELSE NewTransform]
            /\ ss = m.ss
            /\ rp = [i \in Inst |-> IF i = 1 THEN m.rp ELSE 0]
            /\ src = [i \in Inst |-> IF i = 1 THEN Drop(stream, eaten) ELSE <<>>]
            /\ g = [i \in Inst |->
                     IF i = 1
                     THEN [NewHistory EXCEPT !.inited = TRUE, !.loaded = TRUE,
                                             !.input = stream,
                                             !.fed = Take(stream, eaten),
                                             !.out = BufData(t1.outBuf)]
                     ELSE NewHistory]
  /\ call = NoCall

NextCall ==
  \/ \E key \in Keys(tr[1].id) : SetKey(1, key, 0)
  \/ \E n \in 1..Len(src[1]) : AppendInput(1, n)
  \/ \E last \in BOOLEAN, fault \in 0..MaxFault : Execute(1, last, fault)
  \/ Finalize(1)

SpecCall == InitCall /\ [][NextCall]_vars


(***************************************************************************)
(* Properties.                                                             *)
(***************************************************************************)
\* the session is open and a key is loaded
Keyed(t) == t.ctx.cipherCtx # NullHd /\ t.ctx.keyInitialized # 0

\* instance i has been keyed before its first Execute, has made its last=true
\* call, and the provider has not failed on it
Ran(i) == g[i].final /\ Keyed(g[i].base.t) /\ ~g[i].faulted

\* what one Execute(last = true) on the whole input leaves in the output
\* buffer, from the state and the random bytes instance i started with
OneShotOut(i) ==
  LET b == g[i].base
      m == xmlSecGnuTLSBlockCipherExecute(
             [t |-> [b.t EXCEPT !.inBuf = BufAppend(EmptyBuf, g[i].fed)],
              ss |-> b.ss, rp |-> b.rp, sd |-> sd, fc |-> 0, hit |-> FALSE,
              ret |-> 0, errs |-> <<>>, oob |-> {}], TRUE)
  IN BufData(m.t.outBuf)

\* B + B * ceil((n + 1) / B)
WireLen(n, B) == B + B * ((n + B) \div B)

\* C1 (round trip): an encryptor keyed with a key of the right length, fed a
\* plaintext in chunks and closed with last = true, succeeds; a decryptor of
\* the same algorithm and key, fed the encryptor's whole output and closed
\* with last = true, succeeds and has emitted exactly the plaintext.
C1_RoundTrip ==
  \A e \in Inst, d \in Inst :
    (Ran(e) /\ g[e].base.t.encode) =>
      /\ g[e].lastRet = 0
      /\ (g[d].from = e /\ Ran(d)) => (g[d].lastRet = 0 /\ g[d].out = g[e].input)

\* C2 (chunk invariance): with the same random bytes, the output of Execute
\* calls made over any chunking of the input, the last of them with
\* last = true, is byte for byte the output of one Execute(last = true) on
\* the whole input.
C2_ChunkInvariance ==
  \A i \in Inst : Ran(i) => g[i].out = OneShotOut(i)

ValidInput(i) ==
  g[i].base.t.encode \/ g[i].fed \in GoodWires(g[i].base.t.ctx.cipher)

\* C4 (completion): with the session open, the key loaded and status None or
\* Working, Execute(last = true) on valid input returns success and leaves
\* status = Finished, unless the provider fails.
C4_Completion ==
  (/\ call.op = "Execute" /\ call.last /\ ~call.hit
   /\ Keyed(call.pre)
   /\ call.pre.status \in {StatusNone, StatusWorking}
   /\ Ran(call.i) /\ ValidInput(call.i)) =>
     (call.ret = 0 /\ tr[call.i].status = StatusFinished)

\* the call is an Execute on a keyed decryptor that has not consumed an IV
DecryptBeforeIv ==
  /\ call.op = "Execute"
  /\ ~call.pre.encode
  /\ Keyed(call.pre)
  /\ call.preSs[call.pre.ctx.cipherCtx].nSetIv = 0

\* C5 (IV is mandatory on decrypt): Execute(last = true) on a keyed
\* decryptor that has not consumed an IV and holds fewer than B bytes of
\* input fails with the invalid-data reason and does not leave status
\* Finished.
C5_IvMandatory ==
  (/\ DecryptBeforeIv /\ call.last
   /\ call.pre.inBuf.size < BlockLen(call.pre.ctx.cipher)) =>
     /\ call.ret < 0
     /\ call.errs = <<R_INVALID_DATA>>
     /\ tr[call.i].status # StatusFinished

C5_Witness ==
  /\ DecryptBeforeIv /\ call.last
  /\ call.pre.inBuf.size > 0
  /\ call.pre.inBuf.size < BlockLen(call.pre.ctx.cipher)
  /\ call.ret < 0

\* C6 (short-input idleness): while a keyed decryptor has received fewer
\* than B bytes in all, every Execute(last = false) returns success, leaves
\* status None or Working and the framing flag clear, consumes no input byte
\* and emits no output byte.
C6_ShortInputIdle ==
  (/\ DecryptBeforeIv /\ ~call.last
   /\ Len(g[call.i].fed) < BlockLen(call.pre.ctx.cipher)) =>
     /\ call.ret = 0
     /\ tr[call.i].status \in {StatusNone, StatusWorking}
     /\ tr[call.i].ctx.ctxInitialized = 0
     /\ tr[call.i].inBuf = call.pre.inBuf
     /\ tr[call.i].outBuf.size = call.pre.outBuf.size
     /\ BufData(tr[call.i].outBuf) = BufData(call.pre.outBuf)
     /\ ss = call.preSs

\* the second idle call in a row, with input waiting
C6_Witness ==
  /\ DecryptBeforeIv /\ ~call.last
  /\ Len(g[call.i].fed) < BlockLen(call.pre.ctx.cipher)
  /\ call.pre.inBuf.size > 0
  /\ g[call.i].execs >= 2
  /\ call.ret = 0

\* the call is a SetKey that gets as far as the key's size: the session is
\* open, no key is loaded yet and the key is of the klass the transform asks
SetKeyCall ==
  /\ call.op = "SetKey"
  /\ xmlSecGnuTLSBlockCipherCheckId(call.pre.id)
  /\ call.pre.ctx.cipherCtx # NullHd
  /\ call.pre.ctx.keyInitialized = 0
  /\ call.arg.id = call.pre.ctx.keyId

\* C9 (key size): SetKey with a key of fewer than keylen(A) bytes fails with
\* the invalid-key-size reason and loads nothing; with a key of at least
\* keylen(A) bytes it hands exactly the first keylen(A) bytes to the session
\* and, the provider accepting them, marks the key loaded.
C9_KeySize ==
  SetKeyCall =>
    LET h == call.pre.ctx.cipherCtx
        n == KeyLen(call.pre.ctx.cipher)
    IN IF Len(call.arg.value) < n
       THEN /\ call.ret < 0
            /\ call.errs = <<R_INVALID_KEY_SIZE>>
            /\ tr[call.i] = call.pre
            /\ ss = call.preSs
       ELSE IF call.hit
       THEN /\ call.ret < 0
            /\ tr[call.i].ctx.keyInitialized = 0
       ELSE /\ call.ret = 0
            /\ tr[call.i].ctx.keyInitialized = 1
            /\ ss[h].key = Take(call.arg.value, n)
            /\ Len(ss[h].key) = n
            /\ ss[h].nSetKey = call.preSs[h].nSetKey + 1

\* a key longer than keylen(A) has been loaded
C9_Witness ==
  /\ SetKeyCall
  /\ Len(call.arg.value) > KeyLen(call.pre.ctx.cipher)
  /\ call.ret = 0
  /\ tr[call.i].ctx.keyInitialized = 1

\* C10 as stated (failure leaves status alone): when Execute returns
\* failure, status is what it was before the call.
C10_StatusUnchanged ==
  (call.op = "Execute" /\ call.ret < 0) => tr[call.i].status = call.pre.status

\* C10, amended: when Execute returns failure, status is what it was before
\* the call, except that a call entered with status None on a block cipher
\* transform leaves it Working; so a failing call leaves status Finished
\* only if it was entered so.
C10_StatusOnFailure ==
  (call.op = "Execute" /\ call.ret < 0) =>
    tr[call.i].status =
      IF call.pre.status = StatusNone /\ xmlSecGnuTLSBlockCipherCheckId(call.pre.id)
      THEN StatusWorking ELSE call.pre.status

\* a first Execute that fails
C10_Witness ==
  /\ call.op = "Execute" /\ call.ret < 0
  /\ call.pre.status = StatusNone
  /\ tr[call.i].status = StatusWorking


\* the call is an Execute entered with status Finished
FinishedCall == call.op = "Execute" /\ call.pre.status = StatusFinished

\* C7 (Finished is absorbing): an Execute entered with status Finished and
\* an empty input buffer returns success and changes nothing; entered with a
\* non-empty input buffer it returns failure and changes neither status nor
\* the buffers.
C7_FinishedAbsorbing ==
  FinishedCall =>
    IF call.pre.inBuf.size = 0
    THEN /\ call.ret = 0
         /\ tr[call.i] = call.pre
         /\ ss = call.preSs
         /\ rp[call.i] = call.preRp
    ELSE /\ call.ret < 0
         /\ tr[call.i].status = StatusFinished
         /\ tr[call.i].inBuf = call.pre.inBuf
         /\ tr[call.i].outBuf = call.pre.outBuf

\* input arrives after the end of the stream
C7_Witness ==
  /\ FinishedCall
  /\ call.pre.inBuf.size > 0
  /\ call.ret < 0
  /\ tr[call.i].status = StatusFinished

\* the call is a last = true Execute on a framed decryptor that holds just
\* the final block, and the provider does not fail
FinalBlockCall ==
  /\ call.op = "Execute" /\ call.last /\ ~call.hit
  /\ ~call.pre.encode
  /\ Keyed(call.pre)
  /\ call.pre.status = StatusWorking
  /\ call.pre.ctx.ctxInitialized # 0
  /\ call.pre.inBuf.size = BlockLen(call.pre.ctx.cipher)

\* the last byte of the final block, decrypted
FinalPadByte ==
  LET B == BlockLen(call.pre.ctx.cipher)
      s == call.preSs[call.pre.ctx.cipherCtx]
  IN CbcDecrypt(s.key, s.iv, BufData(call.pre.inBuf), B).out[B]

WholeBlocks(bytes, B) == Take(bytes, (Len(bytes) \div B) * B)

\* instance i was framed when its first Execute was entered
FramedAtBase(i) == g[i].execs >= 1 /\ g[i].base.t.ctx.ctxInitialized # 0

\* what the provider makes, under the key and IV instance i started with, of
\* the whole blocks of the input the instance has been fed after the IV
InOrder(i) ==
  LET b == g[i].base
      s == b.ss[b.t.ctx.cipherCtx]
      B == BlockLen(b.t.ctx.cipher)
  IN IF b.t.encode
     THEN CbcEncrypt(s.key, s.iv, WholeBlocks(g[i].fed, B), B).out
     ELSE CbcDecrypt(s.key, s.iv, WholeBlocks(Drop(g[i].fed, B), B), B).out

\* the output of instance i after the IV
OutAfterIv(i) ==
  IF g[i].base.t.encode
  THEN Drop(g[i].out, BlockLen(g[i].base.t.ctx.cipher))
  ELSE g[i].out

\* the shorter of two lengths
Shorter(a, b) == IF a < b THEN a ELSE b

InitializedFor(i) ==
  LET t == tr[i]
      h == t.ctx.cipherCtx
  IN /\ h # NullHd
     /\ Len(ss) = Len(call.preSs) + 1 /\ h = Len(ss)
     /\ \A k \in 1..Len(call.preSs) : ss[k] = call.preSs[k]
     /\ ss[h].open /\ ss[h].nSetKey = 0 /\ ss[h].nSetIv = 0 /\ ss[h].nClose = 0
     /\ ss[h].cipher = t.ctx.cipher
     /\ t.ctx.cipher = CASE t.id = Des3CbcId -> "3DES"
                         [] t.id = Aes128CbcId -> "AES128"
                         [] t.id = Aes192CbcId -> "AES192"
                         [] OTHER -> "AES256"
     /\ t.ctx.mode = "CBC"
     /\ t.ctx.keyId = IF t.id = Des3CbcId THEN "DesKey" ELSE "AesKey"
     /\ t.ctx.keyInitialized = 0
     /\ t.ctx.ctxInitialized = 0

\* what a failed open leaves: the context zeroed but for the descriptor's
\* choices, no session
OpenFailedFor(i) ==
  /\ call.errs = <<R_CRYPTO_FAILED>>
  /\ tr[i].ctx.cipherCtx = NullHd
  /\ tr[i].ctx.keyInitialized = 0
  /\ tr[i].ctx.ctxInitialized = 0
  /\ ss = call.preSs

NoLeakNoDoubleClose ==
  \A k \in 1..Len(ss) :
    /\ ss[k].nClose <= 1
    /\ ss[k].open => \E j \in Inst : tr[j].ctx.cipherCtx = k

\* C15 (Finalize on close paths): from any state after Initialize, Finalize
\* closes the instance's session once if it is not NULL and zeroes the
\* context; a further Finalize closes nothing; every other instance's
\* context and session are as they were; no session is leaked or closed
\* twice.
C15_FinalizeCloses ==
  /\ NoLeakNoDoubleClose
  /\ (call.op = "Finalize" /\ xmlSecGnuTLSBlockCipherCheckId(call.pre.id)) =>
       LET h == call.pre.ctx.cipherCtx
       IN /\ tr[call.i].ctx = ZeroCtx
          /\ \A j \in Inst \ {call.i} : tr[j] = call.preTr[j]
          /\ Len(ss) = Len(call.preSs)
          /\ \A k \in 1..Len(ss) :
               IF k = h
               THEN ~ss[k].open /\ call.preSs[k].open /\ ss[k].nClose = 1
               ELSE ss[k] = call.preSs[k]

\* Finalize in mid-stream, next to another instance whose session is open
C15_Witness ==
  /\ call.op = "Finalize"
  /\ call.pre.ctx.cipherCtx # NullHd
  /\ call.pre.status = StatusWorking
  /\ ~ss[call.pre.ctx.cipherCtx].open
  /\ \E j \in Inst \ {call.i} :
       tr[j].ctx.cipherCtx # NullHd /\ ss[tr[j].ctx.cipherCtx].open


\* the call is an Execute on a keyed transform that is not framed yet
UnframedCall ==
  /\ call.op = "Execute"
  /\ Keyed(call.pre)
  /\ call.pre.status \in {StatusNone, StatusWorking}
  /\ call.pre.ctx.ctxInitialized = 0

\* the call has set an IV on the session
IvStepDone ==
  LET h == call.pre.ctx.cipherCtx
  IN ss[h].nSetIv = call.preSs[h].nSetIv + 1

\* C16 (Init marks framing): when the IV step of Init has succeeded, the
\* framing flag is set when the Execute call returns; it stays clear only
\* when a decryptor's Init returned early for lack of B bytes.
C16_InitMarksFraming ==
  UnframedCall =>
    /\ IvStepDone => tr[call.i].ctx.ctxInitialized # 0
    /\ (call.ret = 0 /\ tr[call.i].ctx.ctxInitialized = 0) =>
         (~call.pre.encode /\ call.pre.inBuf.size < BlockLen(call.pre.ctx.cipher))


\* C17 (the IV step happens once per message): over the Execute calls made
\* on a keyed transform, set_iv is called on its session at most once; an
\* encryptor draws one random IV (B bytes, and at most B - 1 bytes of
\* padding filler after it); a decryptor that has emitted nothing has
\* removed at most the B bytes of the IV from its input.
C17_IvOnce ==
  \A i \in Inst :
    (g[i].execs >= 1 /\ Keyed(g[i].base.t) /\ Keyed(tr[i])) =>
      LET h == tr[i].ctx.cipherCtx
          B == BlockLen(tr[i].ctx.cipher)
      IN /\ ss[h].nSetIv <= 1
         /\ tr[i].encode => rp[i] <= 2 * B - 1
         /\ (~tr[i].encode /\ g[i].out = <<>>) => Len(g[i].fed) - tr[i].inBuf.size <= B


\* the call is a successful Execute(last = false) on a framed transform: of
\* the three steps it has run Update alone
UpdateCall ==
  /\ call.op = "Execute" /\ ~call.last /\ call.ret = 0
  /\ Keyed(call.pre)
  /\ call.pre.status = StatusWorking
  /\ call.pre.ctx.ctxInitialized # 0

UpdateEntered ==
  /\ call.op = "Execute" /\ ~call.last
  /\ Keyed(call.pre)
  /\ call.pre.status = StatusWorking
  /\ call.pre.ctx.ctxInitialized # 0

\* the bytes Update is to take from n bytes of input
InTake(encode, n, B) ==
  IF n < B THEN 0
  ELSE IF encode THEN (n \div B) * B ELSE ((n - 1) \div B) * B

EncryptFinalCall ==
  /\ call.op = "Execute" /\ call.last /\ ~call.hit
  /\ call.pre.encode
  /\ Keyed(call.pre)
  /\ call.pre.status = StatusWorking
  /\ call.pre.ctx.ctxInitialized # 0
  /\ call.pre.inBuf.size < BlockLen(call.pre.ctx.cipher)

\* the block encrypt Final is to hand to the cipher: the r bytes left, the
\* random bytes drawn at the call, the padding length
PaddedBlock ==
  LET B == BlockLen(call.pre.ctx.cipher)
      r == call.pre.inBuf.size
  IN BufData(call.pre.inBuf) \o RandomBytes(sd, call.preRp, B - r - 1) \o <<B - r>>

FinalPlainBlock ==
  LET B == BlockLen(call.pre.ctx.cipher)
      s == call.preSs[call.pre.ctx.cipherCtx]
  IN CbcDecrypt(s.key, s.iv, BufData(call.pre.inBuf), B).out

DecryptLastCall ==
  /\ call.op = "Execute" /\ call.last /\ ~call.hit
  /\ ~call.pre.encode
  /\ Keyed(call.pre)
  /\ call.pre.status = StatusWorking
  /\ call.pre.ctx.ctxInitialized # 0

\* the input Update leaves to Final at such a call
FinalInSize ==
  call.pre.inBuf.size
    - InTake(FALSE, call.pre.inBuf.size, BlockLen(call.pre.ctx.cipher))

IvStepCall ==
  /\ UnframedCall /\ ~call.hit
  /\ call.pre.encode \/ call.pre.inBuf.size >= BlockLen(call.pre.ctx.cipher)

\* C23 (IV binding): the IV Init sets on the session is, for encrypt, the B
\* random bytes it appends to the output (the output grows by exactly B, the
\* bytes it held and the input stay as they were) and, for decrypt, the first
\* B bytes of the input, which Init then removes (the input shrinks by
\* exactly B, the output stays as it was); at the first IV step of a message
\* these are the first B bytes of the stream.
C23_IvBinding ==
  IvStepCall =>
    LET B == BlockLen(call.pre.ctx.cipher)
        h == call.pre.ctx.cipherCtx
        t == tr[call.i]
        first == call.preSs[h].nSetIv = 0 /\ call.pre.outBuf.size = 0
    IN /\ IvStepDone
       /\ Len(ss[h].iv) = B
       /\ call.pre.encode =>
            /\ ss[h].iv = Emitted(call.pre.outBuf, t.outBuf)
            /\ ss[h].iv = RandomBytes(sd, call.preRp, B)
            /\ t.outBuf.size = call.pre.outBuf.size + B
            /\ Take(BufData(t.outBuf), call.pre.outBuf.size) = BufData(call.pre.outBuf)
            /\ t.inBuf = call.pre.inBuf
            /\ first => ss[h].iv = Take(g[call.i].out, B)
       /\ ~call.pre.encode =>
            /\ ss[h].iv = Take(BufData(call.pre.inBuf), B)
            /\ t.inBuf.size = call.pre.inBuf.size - B
            /\ BufData(t.inBuf) = Drop(BufData(call.pre.inBuf), B)
            /\ t.outBuf = call.pre.outBuf
            /\ first => ss[h].iv = Take(g[call.i].fed, B)

\* a decryptor's first IV step, with ciphertext behind the IV
C23_Witness ==
  /\ IvStepCall /\ IvStepDone
  /\ ~call.pre.encode
  /\ call.preSs[call.pre.ctx.cipherCtx].nSetIv = 0
  /\ call.pre.inBuf.size = 2 * BlockLen(call.pre.ctx.cipher)
  /\ tr[call.i].inBuf.size = BlockLen(call.pre.ctx.cipher)
  /\ ss[call.pre.ctx.cipherCtx].iv = RefIv(BlockLen(call.pre.ctx.cipher))


\* the bytes of ciphertext stream the driver has fed to the called instance
\* in all, the IV counted
FedLen == Len(g[call.i].fed)

\* a length a well-formed stream can have: the IV and whole blocks, one at
\* least
StreamLenOk(L, B) == L >= 2 * B /\ L % B = 0

\* the call is an Execute on a keyed decryptor that is not Finished
DecryptCall ==
  /\ call.op = "Execute"
  /\ ~call.pre.encode
  /\ Keyed(call.pre)
  /\ call.pre.status \in {StatusNone, StatusWorking}

NoKeyLoaded ==
  \/ call.pre.ctx.cipherCtx = NullHd
  \/ call.preSs[call.pre.ctx.cipherCtx].nSetKey = 0

\* C25 (the provider is called on an open, keyed session only): an Execute
\* call changes no session that is closed or has had no key loaded; an
\* Execute made before a successful SetKey or after Finalize finds the
\* transform not keyed, touches no session, draws no random byte, leaves both
\* buffers as they were, and fails, unless it is the call without effect of
\* status Finished.
C25_ProviderOnKeyedSession ==
  call.op = "Execute" =>
    /\ \A h \in 1..Len(call.preSs) :
         (~call.preSs[h].open \/ call.preSs[h].nSetKey = 0) => ss[h] = call.preSs[h]
    /\ (g[call.i].fin \/ NoKeyLoaded) => ~Keyed(call.pre)
    /\ ~Keyed(call.pre) =>
         /\ ss = call.preSs
         /\ rp[call.i] = call.preRp
         /\ tr[call.i].inBuf = call.pre.inBuf
         /\ tr[call.i].outBuf = call.pre.outBuf
         /\ \/ call.ret < 0
            \/ call.pre.status = StatusFinished /\ tr[call.i] = call.pre

\* an Execute after Finalize, on a transform that was keyed and has input
\* waiting, fails
C25_Witness ==
  /\ call.op = "Execute"
  /\ g[call.i].fin
  /\ call.pre.inBuf.size > 0
  /\ call.ret < 0
  /\ \E h \in 1..Len(call.preSs) : ~call.preSs[h].open /\ call.preSs[h].nSetKey > 0


\* C26 (one key per Initialize): SetKey on a transform whose key flag is set
\* fails without a call of the provider's set_key and changes nothing; no
\* session has its key set twice; an Execute call leaves the session's key
\* and the key flag as they were; and the key flag goes from set to clear
\* only in a Finalize or an Initialize.
C26_KeyLoadedOnce ==
  /\ \A h \in 1..Len(ss) : ss[h].nSetKey <= 1
  /\ (call.op = "SetKey" /\ call.pre.ctx.keyInitialized # 0) =>
       /\ call.ret < 0
       /\ call.errs = <<R_ASSERT>>
       /\ ss = call.preSs
       /\ tr[call.i] = call.pre
  /\ call.op = "Execute" =>
       /\ \A h \in 1..Len(call.preSs) :
            ss[h].key = call.preSs[h].key /\ ss[h].nSetKey = call.preSs[h].nSetKey
       /\ tr[call.i].ctx.keyInitialized = call.pre.ctx.keyInitialized
  /\ (call.op # "none" /\ call.pre.ctx.keyInitialized # 0
        /\ tr[call.i].ctx.keyInitialized = 0) =>
       call.op \in {"Finalize", "Initialize"}
  /\ call.op # "none" =>
       \A j \in Inst : j # call.i => tr[j].ctx = call.preTr[j].ctx

\* a second SetKey, between two Execute calls, with the right key, is refused
C26_Witness ==
  /\ call.op = "SetKey"
  /\ call.pre.ctx.keyInitialized # 0
  /\ call.arg = DriverKey(call.pre.id)
  /\ g[call.i].execs >= 1
  /\ call.ret < 0
  /\ ss[call.pre.ctx.cipherCtx].nSetKey = 1


StatusRank(status) ==
  CASE status = StatusNone -> 0
    [] status = StatusWorking -> 1
    [] status = StatusFinished -> 2
    [] OTHER -> 3

====
